---- MODULE Spec2Model ----
(***************************************************************************)
(* fNIRSDataset (datapreprocessingsegmenthumanoid.py): construction of the *)
(* dataset from an Excel workbook (channel pairing, header extraction,     *)
(* subject split, regime parameters) and materialization of one sample     *)
(* (__getitem__: column read, stacking, sliding-window averaging, label).  *)
(*                                                                         *)
(* Text is modelled as sequences of one-character strings, so that the     *)
(* substring test, the regular expression and Python's string ordering are *)
(* computed character by character.  A tensor of shape [2, C, T] is a      *)
(* sequence of 2 sequences of C sequences of T numbers.  Cell values are   *)
(* integers; a scaled value is the integer val * 1000000, and the mean of  *)
(* two scaled values is an exact multiple of 500000.                       *)
(***************************************************************************)
EXTENDS Integers, Sequences, FiniteSets, TLC

VARIABLES
    excel,      \* the workbook behind excel_file
    request,    \* the split names the caller constructs datasets for
    status,     \* per split name: "none", "ok", or the error construction raised
    ds,         \* per split name: the fields of the constructed fNIRSDataset
    pc,         \* position of the caller: "construct", then "done" after the access
    last        \* what the access dataset[idx] produced

vars == <<excel, request, status, ds, pc, last>>

---------------------------------------------------------------------------
(* Numbers written in the source. *)

TargetLengthTertiary == 4549
OffsetFTertiary == 252
OffsetHTertiary == 2252
TargetLengthBinary == 4801
OffsetHBinary == 2000
TrainSubjects == 16
Scale == 1000000
HeaderRows == 2

(* Bounds of the model. *)

MaxRows == 6801
MaxSubjects == 17
MaxSheets == 4

---------------------------------------------------------------------------
(* Text. *)

UpperCase == <<"A","B","C","D","E","F","G","H","I","J","K","L","M",
               "N","O","P","Q","R","S","T","U","V","W","X","Y","Z">>
LowerCase == <<"a","b","c","d","e","f","g","h","i","j","k","l","m",
               "n","o","p","q","r","s","t","u","v","w","x","y","z">>
Digits == <<"0","1","2","3","4","5","6","7","8","9">>

\* str.lower(), one character
LowerChar(c) ==
    IF \E i \in 1..26 : UpperCase[i] = c
    THEN LowerCase[CHOOSE i \in 1..26 : UpperCase[i] = c]
    ELSE c

lower(s) == [i \in 1..Len(s) |-> LowerChar(s[i])]

\* pat in s
Contains(s, pat) ==
    \E i \in 1..(Len(s) - Len(pat) + 1) : SubSeq(s, i, i + Len(pat) - 1) = pat

IsDigit(c) == \E i \in 1..10 : Digits[i] = c

\* code point of a character that can occur in a channel id
Ord(c) == IF c = "," THEN 44 ELSE 47 + (CHOOSE i \in 1..10 : Digits[i] = c)

\* Python's a < b on strings: by code point, a proper prefix first
StrLess(a, b) ==
    \/ /\ Len(a) < Len(b)
       /\ SubSeq(b, 1, Len(a)) = a
    \/ \E i \in 1..Len(a) :
          /\ i <= Len(b)
          /\ SubSeq(a, 1, i - 1) = SubSeq(b, 1, i - 1)
          /\ Ord(a[i]) < Ord(b[i])

\* the last position of the run of digits that starts at i
DigitRunEnd(s, i) ==
    CHOOSE j \in i..Len(s) :
        /\ \A k \in i..j : IsDigit(s[k])
        /\ (j = Len(s) \/ ~IsDigit(s[j + 1]))

\* (\d+,\d+) matches at position i (the greedy \d+ takes the whole run)
MatchAt(s, i) ==
    /\ IsDigit(s[i])
    /\ LET j == DigitRunEnd(s, i)
       IN  /\ j + 2 <= Len(s)
           /\ s[j + 1] = ","
           /\ IsDigit(s[j + 2])

NoMatch == <<>>

\* re.search(r'(\d+,\d+)', sheet_name): group 1 of the leftmost match
ChannelIdOf(s) ==
    IF \E i \in 1..Len(s) : MatchAt(s, i)
    THEN LET i == CHOOSE i \in 1..Len(s) :
                     MatchAt(s, i) /\ \A k \in 1..(i - 1) : ~MatchAt(s, k)
             j == DigitRunEnd(s, i)
         IN  SubSeq(s, i, DigitRunEnd(s, j + 2))
    ELSE NoMatch

---------------------------------------------------------------------------
(* Grouping the sheets by channel id. *)

NoSheet == <<>>
NoMeasurement == "none"

\* the if / elif / else on the lower-cased sheet name
MeasurementOf(sheet_name) ==
    IF Contains(lower(sheet_name), <<"h","b","o">>) THEN "HbO"
    ELSE IF Contains(lower(sheet_name), <<"h","b","r">>) THEN "HbR"
    ELSE NoMeasurement

\* channel_dict after the first n sheet names: channel id -> [HbO, HbR] sheet
\* names, NoSheet for a kind not seen (setdefault, then assignment)
RECURSIVE ChannelDict(_, _)
ChannelDict(names, n) ==
    IF n = 0 THEN << >>
    ELSE LET d == ChannelDict(names, n - 1)
             measurement == MeasurementOf(names[n])
             channel_id == ChannelIdOf(names[n])
             old == IF channel_id \in DOMAIN d THEN d[channel_id]
                    ELSE [HbO |-> NoSheet, HbR |-> NoSheet]
         IN  IF measurement = NoMeasurement \/ channel_id = NoMatch THEN d
             ELSE [cid \in (DOMAIN d) \cup {channel_id} |->
                     IF cid = channel_id
                     THEN [old EXCEPT ![measurement] = names[n]]
                     ELSE d[cid]]

\* variant: a channel with a sheet of either kind is kept
ValidChannelsEitherKind(channel_dict) ==
    {cid \in DOMAIN channel_dict :
        channel_dict[cid].HbO # NoSheet \/ channel_dict[cid].HbR # NoSheet}

\* the keys of valid_channels
ValidChannels(channel_dict) ==
    {cid \in DOMAIN channel_dict :
        channel_dict[cid].HbO # NoSheet /\ channel_dict[cid].HbR # NoSheet}

\* the number a run of digits writes
RECURSIVE DigitsValue(_)
DigitsValue(s) ==
    IF s = <<>> THEN 0
    ELSE 10 * DigitsValue(SubSeq(s, 1, Len(s) - 1))
         + (CHOOSE i \in 1..10 : Digits[i] = s[Len(s)]) - 1

\* the pair of integers a channel id writes
IdPair(cid) ==
    LET comma == CHOOSE i \in 1..Len(cid) : cid[i] = ","
    IN  <<DigitsValue(SubSeq(cid, 1, comma - 1)),
          DigitsValue(SubSeq(cid, comma + 1, Len(cid)))>>

\* a <= b on pairs of integers
PairLeq(a, b) == a[1] < b[1] \/ (a[1] = b[1] /\ a[2] <= b[2])

\* variant: the ids sorted as pairs of integers
RECURSIVE SortedChannelsNumeric(_)
SortedChannelsNumeric(keys) ==
    IF keys = {} THEN <<>>
    ELSE LET least == CHOOSE a \in keys :
                          \A b \in keys : PairLeq(IdPair(a), IdPair(b))
         IN  <<least>> \o SortedChannelsNumeric(keys \ {least})

\* sorted(valid_channels.keys()): keys are str
RECURSIVE SortedChannels(_)
SortedChannels(keys) ==
    IF keys = {} THEN <<>>
    ELSE LET least == CHOOSE a \in keys : \A b \in keys \ {a} : StrLess(a, b)
         IN  <<least>> \o SortedChannels(keys \ {least})

\* self.hb_sheets
HbSheets(channel_dict, channels) ==
    [i \in 1..Len(channels) |->
        <<channel_dict[channels[i]].HbO, channel_dict[channels[i]].HbR>>]

---------------------------------------------------------------------------
(* Header rows, subject split, sample metadata. *)

expected_events == {"S", "F", "H"}

\* header1[0] not in expected_events
DropFirst(header1) == header1[1] \notin expected_events

\* list(zip(header1, header2)) after the optional header1[1:], header2[1:]
SampleHeaders(header1, header2) ==
    LET h1 == IF DropFirst(header1) THEN Tail(header1) ELSE header1
        h2 == IF DropFirst(header1) THEN Tail(header2) ELSE header2
    IN  [i \in 1..Len(h1) |-> <<h1[i], h2[i]>>]

Range(seq) == {seq[i] : i \in 1..Len(seq)}

\* sorted(...) of a set of numeric subject ids
RECURSIVE SortedSubjects(_)
SortedSubjects(subjects) ==
    IF subjects = {} THEN <<>>
    ELSE LET least == CHOOSE a \in subjects : \A b \in subjects : a <= b
         IN  <<least>> \o SortedSubjects(subjects \ {least})

\* sorted(list(set([subj for (_, subj) in self.sample_headers])))
AllSubjects(sample_headers) ==
    SortedSubjects({sample_headers[i][2] : i \in 1..Len(sample_headers)})

ValidSplits == {"train", "test", "all", "validation"}

\* all_subjects[:16]
TrainSlice(all_subjects) ==
    SubSeq(all_subjects, 1, IF Len(all_subjects) < TrainSubjects
                            THEN Len(all_subjects) ELSE TrainSubjects)

\* variant: all_subjects[15:]
TestSliceFromLastTrain(all_subjects) ==
    SubSeq(all_subjects, TrainSubjects, Len(all_subjects))

\* all_subjects[16:]
TestSlice(all_subjects) ==
    SubSeq(all_subjects, TrainSubjects + 1, Len(all_subjects))

\* selected_subjects for a valid split name
SelectedSubjects(all_subjects, split) ==
    IF split = "train" THEN TrainSlice(all_subjects)
    ELSE IF split = "test" THEN TestSlice(all_subjects)
    ELSE all_subjects

\* variant: col_idx counts the retained entries, not the header entries
RECURSIVE SamplesMetaRenumbered(_, _, _)
SamplesMetaRenumbered(sample_headers, selected_subjects, n) ==
    IF n = 0 THEN <<>>
    ELSE LET before == SamplesMetaRenumbered(sample_headers, selected_subjects, n - 1)
         IN  IF sample_headers[n][2] \in Range(selected_subjects)
             THEN Append(before, <<sample_headers[n][1], sample_headers[n][2],
                                   Len(before)>>)
             ELSE before

\* the loop over enumerate(self.sample_headers), its first n entries;
\* col_idx counts from 0
RECURSIVE SamplesMeta(_, _, _)
SamplesMeta(sample_headers, selected_subjects, n) ==
    IF n = 0 THEN <<>>
    ELSE LET event == sample_headers[n][1]
             subj == sample_headers[n][2]
             col_idx == n - 1
             before == SamplesMeta(sample_headers, selected_subjects, n - 1)
         IN  IF subj \in Range(selected_subjects)
             THEN Append(before, <<event, subj, col_idx>>)
             ELSE before

---------------------------------------------------------------------------
(* Event mapping and target length. *)

NoAttribute == 0 - 1

\* the if / else on expected_events, the local set assigned before the header
\* is read
Regime(events) ==
    IF events = {"S", "F", "H"}
    THEN [event_map |-> ("S" :> 0 @@ "F" :> 1 @@ "H" :> 2),
          target_length |-> TargetLengthTertiary,
          offset_F |-> OffsetFTertiary,
          offset_H |-> OffsetHTertiary]
    ELSE [event_map |-> ("F" :> 0 @@ "H" :> 1),
          target_length |-> TargetLengthBinary,
          offset_F |-> NoAttribute,
          offset_H |-> OffsetHBinary]

---------------------------------------------------------------------------
(* fNIRSDataset.__init__ *)

NoDataset ==
    [channels |-> <<>>, num_channels |-> 0, hb_sheets |-> <<>>,
     drop_first |-> FALSE, sample_headers |-> <<>>, samples_meta |-> <<>>,
     sampling_points |-> 0, event_map |-> << >>, target_length |-> 0,
     offset_F |-> NoAttribute, offset_H |-> NoAttribute]

\* position of a sheet in the workbook (wb[sheet_name])
SheetIndex(wb, sheet_name) ==
    CHOOSE k \in 1..Len(wb.sheetnames) : wb.sheetnames[k] = sheet_name

NewDataset(wb, split) ==
    LET channel_dict == ChannelDict(wb.sheetnames, Len(wb.sheetnames))
        channels == SortedChannels(ValidChannels(channel_dict))
        hb_sheets == HbSheets(channel_dict, channels)
        sample_sheet == SheetIndex(wb, hb_sheets[1][1])
        sample_headers == SampleHeaders(wb.header1, wb.header2)
        all_subjects == AllSubjects(sample_headers)
        selected_subjects == SelectedSubjects(all_subjects, split)
        regime == Regime(expected_events)
    IN  [channels |-> channels,
         num_channels |-> Len(channels),
         hb_sheets |-> hb_sheets,
         drop_first |-> DropFirst(wb.header1),
         sample_headers |-> sample_headers,
         samples_meta |-> SamplesMeta(sample_headers, selected_subjects,
                                      Len(sample_headers)),
         sampling_points |-> (wb.nrows[sample_sheet] + HeaderRows) - 2,
         event_map |-> regime.event_map,
         target_length |-> regime.target_length,
         offset_F |-> regime.offset_F,
         offset_H |-> regime.offset_H]

\* variant: a header whose event codes are neither {S,F,H} nor {F,H} is refused
ConstructOutcomeClosedVocabulary(wb, split) ==
    LET sample_headers == SampleHeaders(wb.header1, wb.header2)
        events == {sample_headers[i][1] : i \in 1..Len(sample_headers)}
    IN  IF ValidChannels(ChannelDict(wb.sheetnames, Len(wb.sheetnames))) = {}
        THEN "ValueError: no valid channels"
        ELSE IF events \notin {{"S", "F", "H"}, {"F", "H"}}
        THEN "ValueError: unsupported events"
        ELSE IF split \notin ValidSplits
        THEN "ValueError: invalid split"
        ELSE "ok"

\* what __init__ ends with: "ok", or the exception it raises
ConstructOutcome(wb, split) ==
    IF ValidChannels(ChannelDict(wb.sheetnames, Len(wb.sheetnames))) = {}
    THEN "ValueError: no valid channels"
    ELSE IF split \notin ValidSplits
    THEN "ValueError: invalid split"
    ELSE "ok"

Construct(split) ==
    /\ pc = "construct"
    /\ split \in request
    /\ status[split] = "none"
    /\ status' = [status EXCEPT ![split] = ConstructOutcome(excel, split)]
    /\ ds' = [ds EXCEPT ![split] =
                IF ConstructOutcome(excel, split) = "ok"
                THEN NewDataset(excel, split) ELSE NoDataset]
    /\ UNCHANGED <<excel, request, pc, last>>

---------------------------------------------------------------------------
(* The data rows of the workbook (rows 3 and below of every sheet).  Sheet *)
(* k has excel.nrows[k] data rows; a cell holds a small integer or is      *)
(* empty, and with excel.short_rows some rows end before the last column.  *)

NoneCell == 99

\* len(row) for data row r (from 0) of sheet k
RowWidth(wb, k, r) ==
    IF wb.short_rows /\ r % 3 = 2 THEN Len(wb.header1) - 1 ELSE Len(wb.header1)

\* row[c] for data row r (from 0), column c (from 0) of sheet k
CellValue(wb, k, r, c) ==
    IF (r + c + k) % 7 = 3 THEN NoneCell
    ELSE ((r + 5 * c + 7 * k) % 11) - 5

---------------------------------------------------------------------------
(* numpy / torch arithmetic. *)

Abs(x) == IF x < 0 THEN 0 - x ELSE x

\* the spacing of float32 values around magnitude a (24-bit significand)
RECURSIVE Ulp(_, _)
Ulp(a, u) == IF a < 16777216 * u THEN u ELSE Ulp(a, 2 * u)

\* rounding of an integer to float32, ties to even
Float32(x) ==
    LET a == Abs(x)
        u == Ulp(a, 1)
        q == a \div u
        r == a % u
        n == IF 2 * r < u \/ (2 * r = u /\ q % 2 = 0) THEN q * u ELSE (q + 1) * u
    IN  IF x < 0 THEN 0 - n ELSE n

\* one value of the column loop: out-of-row and empty cells are 0, then
\* val * 1_000_000, stored as float32
ScaledValue(wb, k, r, actual_col_idx) ==
    LET val == IF actual_col_idx < RowWidth(wb, k, r)
               THEN CellValue(wb, k, r, actual_col_idx) ELSE 0
    IN  Float32((IF val = NoneCell THEN 0 ELSE val) * Scale)

\* np.array(col_vals, dtype=np.float32) for one sheet
ReadColumn(wb, sheet_name, actual_col_idx) ==
    LET k == SheetIndex(wb, sheet_name)
    IN  [t \in 1..wb.nrows[k] |-> ScaledValue(wb, k, t - 1, actual_col_idx)]

\* np.stack over arrays: all must have the same shape
Stackable(arrays) == \A i \in 1..Len(arrays) : Len(arrays[i]) = Len(arrays[1])

\* length of the time axis of a [2, C, T] tensor
TimeLen(x) == Len(x[1][1])

Min(a, b) == IF a < b THEN a ELSE b

\* x[:, :, start:stop] for 0 <= start <= stop
Slice(x, start, stop) ==
    [m \in 1..Len(x) |-> [c \in 1..Len(x[m]) |->
        SubSeq(x[m][c], start + 1, Min(stop, Len(x[m][c])))]]

\* whether window1 + window2 broadcasts along the time axis
Broadcastable(window1, window2) ==
    \/ TimeLen(window1) = TimeLen(window2)
    \/ TimeLen(window1) = 1
    \/ TimeLen(window2) = 1

\* (window1 + window2) / 2.0 in float32, with broadcasting of a time axis of
\* length 1
Average(window1, window2) ==
    LET n1 == TimeLen(window1)
        n2 == TimeLen(window2)
        n == IF n1 = 1 THEN n2 ELSE n1
    IN  [m \in 1..Len(window1) |-> [c \in 1..Len(window1[m]) |->
            [t \in 1..n |->
                Float32(window1[m][c][IF n1 = 1 THEN 1 ELSE t]
                        + window2[m][c][IF n2 = 1 THEN 1 ELSE t]) \div 2]]]

---------------------------------------------------------------------------
(* fNIRSDataset.__getitem__ *)

\* variant: negative indices are refused
ListPositionFromZero(n, idx) == IF 0 <= idx /\ idx < n THEN idx + 1 ELSE 0

\* self.samples_meta[idx]: the position (from 1) a Python list index reads,
\* 0 when it raises IndexError
ListPosition(n, idx) ==
    IF 0 <= idx /\ idx < n THEN idx + 1
    ELSE IF idx < 0 /\ 0 - n <= idx THEN idx + n + 1
    ELSE 0

\* actual_col_idx
ActualColIdx(d, col_idx) == IF d.drop_first THEN col_idx + 1 ELSE col_idx

\* hbO_list (m = 1) and hbR_list (m = 2)
ColumnList(wb, d, m, actual_col_idx) ==
    [c \in 1..Len(d.hb_sheets) |->
        ReadColumn(wb, d.hb_sheets[c][m], actual_col_idx)]

\* variant: F and H take each other's offset
WindowOffsetSwapped(d, event) ==
    IF event = "F" THEN d.offset_H
    ELSE IF event = "H" THEN d.offset_F
    ELSE NoAttribute

\* the window to average with fNIRS_data[:, :, :target_length], as its
\* offset; NoAttribute when the event takes the first window alone
WindowOffset(d, event) ==
    IF "S" \in DOMAIN d.event_map
    THEN IF event = "S" THEN NoAttribute
         ELSE IF event = "F" THEN d.offset_F
         ELSE IF event = "H" THEN d.offset_H
         ELSE NoAttribute
    ELSE IF event = "F" THEN NoAttribute
         ELSE IF event = "H" THEN d.offset_H
         ELSE NoAttribute

\* self.event_map.get(event, -1)
EventLabel(d, event) ==
    IF event \in DOMAIN d.event_map THEN d.event_map[event] ELSE 0 - 1

NoAccess ==
    [split |-> "", idx |-> 0, outcome |-> "none", event |-> "", subj |-> 0,
     col_idx |-> 0, data |-> <<>>, label |-> 0 - 1]

\* dataset[idx]: the sample and label, or the exception raised
Access(wb, d, split, idx) ==
    LET pos == ListPosition(Len(d.samples_meta), idx)
        event == d.samples_meta[pos][1]
        subj == d.samples_meta[pos][2]
        col_idx == d.samples_meta[pos][3]
        actual_col_idx == ActualColIdx(d, col_idx)
        hbO_list == ColumnList(wb, d, 1, actual_col_idx)
        hbR_list == ColumnList(wb, d, 2, actual_col_idx)
        fNIRS_data == <<hbO_list, hbR_list>>
        offset == WindowOffset(d, event)
        window1 == Slice(fNIRS_data, 0, d.target_length)
        window2 == Slice(fNIRS_data, offset, offset + d.target_length)
        read == [NoAccess EXCEPT !.split = split, !.idx = idx, !.event = event,
                                 !.subj = subj, !.col_idx = col_idx]
    IN  IF pos = 0
        THEN [NoAccess EXCEPT !.split = split, !.idx = idx,
                              !.outcome = "IndexError"]
        ELSE IF \/ ~Stackable(hbO_list)
                \/ ~Stackable(hbR_list)
                \/ Len(hbO_list[1]) # Len(hbR_list[1])
        THEN [read EXCEPT !.outcome = "ValueError"]
        ELSE IF offset = NoAttribute
        THEN [read EXCEPT !.outcome = "ok", !.data = window1,
                          !.label = EventLabel(d, event)]
        ELSE IF ~Broadcastable(window1, window2)
        THEN [read EXCEPT !.outcome = "RuntimeError"]
        ELSE [read EXCEPT !.outcome = "ok", !.data = Average(window1, window2),
                          !.label = EventLabel(d, event)]

GetItem(split, idx) ==
    /\ pc = "construct"
    /\ status[split] = "ok"
    /\ last' = Access(excel, ds[split], split, idx)
    /\ pc' = "done"
    /\ UNCHANGED <<excel, request, status, ds>>

---------------------------------------------------------------------------
(* Workbooks.  Every sheet of a workbook carries the same two header rows. *)

\* "HbO 1,1", "HbR 1,1"
OneChannel == <<<<"H","b","O"," ","1",",","1">>,
                <<"H","b","R"," ","1",",","1">>>>

\* sheet names with and without a measurement kind and a channel id, in
\* mixed case, one with both kinds, one repeating a channel
Catalogue ==
    <<<<"H","b","O"," ","2",",","1">>,
      <<"H","b","R"," ","2",",","1">>,
      <<"h","b","o"," ","1","0",",","1">>,
      <<"H","B","R"," ","1","0",",","1">>,
      <<"H","b","O"," ","3",",","3">>,
      <<"N","o","t","e","s"," ","1",",","1">>,
      <<"H","b","R"," ","m","e","a","n">>,
      <<"H","b","O"," ","H","b","R"," ","4",",","4">>,
      <<"H","b","R"," ","4",",","4">>,
      <<"H","b","O"," ","2",",","1"," ","b">>,
      <<"H","b","R"," ","1",",","2",",","3">>,
      <<"H","b","O","1",",","2">>>>

\* the sheets of the catalogue at the positions in chosen, in catalogue order
RECURSIVE Pick(_, _)
Pick(chosen, n) ==
    IF n = 0 THEN <<>>
    ELSE IF n \in chosen THEN Append(Pick(chosen, n - 1), Catalogue[n])
    ELSE Pick(chosen, n - 1)

\* header rows of nsubj subjects with the given events each; columns grouped
\* by subject or by event, subjects ascending or descending, optionally after
\* a timestamp column
HeaderColumns(nsubj, events, by_event, descending) ==
    LET ne == Len(events)
        subject(i) == IF descending THEN nsubj + 1 - i ELSE i
    IN  [i \in 1..(nsubj * ne) |->
            IF by_event
            THEN <<events[((i - 1) \div nsubj) + 1], subject(((i - 1) % nsubj) + 1)>>
            ELSE <<events[((i - 1) % ne) + 1], subject(((i - 1) \div ne) + 1)>>]

Workbook(sheetnames, columns, timestamp, nrows, short_rows) ==
    [sheetnames |-> sheetnames,
     header1 |-> (IF timestamp THEN <<"Time">> ELSE <<>>)
                 \o [i \in 1..Len(columns) |-> columns[i][1]],
     header2 |-> (IF timestamp THEN <<0>> ELSE <<>>)
                 \o [i \in 1..Len(columns) |-> columns[i][2]],
     nrows |-> nrows,
     short_rows |-> short_rows]

\* row counts around the window bounds
RowCounts ==
    {0, 1, OffsetFTertiary + 1, OffsetHTertiary + 1, TargetLengthTertiary,
     TargetLengthTertiary + OffsetFTertiary, MaxRows}

\* one or two subjects, every row count, one channel (two for the longest
\* sheets): the windowing cases
WindowWorkbooks ==
    LET headers ==
            {<<HeaderColumns(1, <<"S", "F", "H">>, FALSE, FALSE), TRUE>>,
             <<HeaderColumns(1, <<"F", "H">>, FALSE, FALSE), FALSE>>,
             <<HeaderColumns(1, <<"F", "H", "X">>, FALSE, FALSE), TRUE>>,
             <<HeaderColumns(2, <<"S">>, FALSE, FALSE), FALSE>>}
    IN  {Workbook(OneChannel, h[1], h[2], <<n, n>>, FALSE) :
            h \in headers, n \in RowCounts}
        \cup {Workbook(OneChannel, h[1], h[2], <<n, n>>, TRUE) :
            h \in headers, n \in {3, OffsetFTertiary + 1}}
        \cup {Workbook(OneChannel, h[1], h[2], <<n, n + 1>>, FALSE) :
            h \in headers, n \in {0, 1}}
        \cup {Workbook(Pick(1..4, Len(Catalogue)),
                       HeaderColumns(1, <<"S", "F", "H">>, FALSE, FALSE), TRUE,
                       <<n, n, n, n>>, FALSE) :
            n \in {OffsetFTertiary + 1, MaxRows}}

\* one channel, short sheets, 1..MaxSubjects subjects: the split cases
SplitWorkbooks ==
    {Workbook(OneChannel, HeaderColumns(nsubj, <<"S">>, FALSE, descending),
              descending, <<1, 1>>, FALSE) :
        nsubj \in 1..MaxSubjects, descending \in BOOLEAN}
    \cup {Workbook(OneChannel,
                   HeaderColumns(MaxSubjects, <<"S", "F">>, by_event, FALSE),
                   TRUE, <<1, 1>>, FALSE) : by_event \in BOOLEAN}

\* one or two subjects, every split name a caller may pass
SplitNameWorkbooks ==
    {Workbook(OneChannel, HeaderColumns(nsubj, <<"S", "H">>, TRUE, FALSE),
              timestamp, <<1, 1>>, FALSE) :
        nsubj \in 1..2, timestamp \in BOOLEAN}

\* up to MaxSheets sheets of the catalogue: the channel pairing cases
SheetWorkbooks ==
    {Workbook(Pick(chosen, Len(Catalogue)),
              HeaderColumns(1, <<"S", "F">>, FALSE, FALSE), TRUE,
              [k \in 1..Cardinality(chosen) |-> 3], FALSE) :
        chosen \in {c \in SUBSET (1..Len(Catalogue)) : Cardinality(c) <= MaxSheets}}

Splits == {"train", "test", "all", "validation", "holdout"}

---------------------------------------------------------------------------

Init ==
    /\ \/ excel \in WindowWorkbooks /\ request = {"all"}
       \/ excel \in SplitWorkbooks /\ request = {"train", "test", "all"}
       \/ excel \in SplitNameWorkbooks /\ request = Splits
       \/ excel \in SheetWorkbooks /\ request = {"validation"}
    /\ status = [s \in Splits |-> "none"]
    /\ ds = [s \in Splits |-> NoDataset]
    /\ pc = "construct"
    /\ last = NoAccess

\* the indices tried on a dataset of n samples
Indices(n) == (0 - (n + 1))..n

Next ==
    \/ \E split \in Splits : Construct(split)
    \/ \E split \in Splits :
          \E idx \in Indices(Len(ds[split].samples_meta)) : GetItem(split, idx)

Spec == Init /\ [][Next]_vars

---------------------------------------------------------------------------
(* What the properties speak about, read off the workbook itself. *)

Built(s) == status[s] = "ok"

\* the header entries of the data columns: <<event, subject>>, the timestamp
\* column left out
DataColumns ==
    LET first == IF excel.header1[1] = "Time" THEN 2 ELSE 1
    IN  [i \in 1..(Len(excel.header1) + 1 - first) |->
            <<excel.header1[i + first - 1], excel.header2[i + first - 1]>>]

\* the event codes observed in the header row
ObservedEvents == {DataColumns[i][1] : i \in 1..Len(DataColumns)}

\* the distinct subject ids of the header
HeaderSubjects == {DataColumns[i][2] : i \in 1..Len(DataColumns)}

\* the subjects of a split: train is the TrainSubjects smallest ids, test the
\* others, all and validation every subject
SplitSubjects(s) ==
    LET subjects == HeaderSubjects
        rank(u) == Cardinality({v \in subjects : v < u})
    IN  IF s = "train" THEN {u \in subjects : rank(u) < TrainSubjects}
        ELSE IF s = "test" THEN {u \in subjects : rank(u) >= TrainSubjects}
        ELSE subjects

\* the subjects a constructed dataset retains
Retained(s) ==
    {ds[s].samples_meta[i][2] : i \in 1..Len(ds[s].samples_meta)}

\* the channel ids with a sheet of each kind (a sheet has the kind
\* MeasurementOf gives it)
PairedIds ==
    LET names == Range(excel.sheetnames)
        ids(kind) == {ChannelIdOf(n) : n \in {x \in names : MeasurementOf(x) = kind}}
                     \ {NoMatch}
    IN  ids("HbO") \cap ids("HbR")

\* the sheet read for a channel id and a kind: the last of that id and kind
SheetFor(cid, kind) ==
    LET at == {k \in 1..Len(excel.sheetnames) :
                  /\ MeasurementOf(excel.sheetnames[k]) = kind
                  /\ ChannelIdOf(excel.sheetnames[k]) = cid}
    IN  excel.sheetnames[CHOOSE k \in at : \A j \in at : j <= k]

\* the scaled series of the accessed sample: kind m, channel c, as a sequence
\* over the data rows of the sheet
Raw(m, c) ==
    LET d == ds[last.split]
        column == IF excel.header1[1] = "Time" THEN last.col_idx + 1
                  ELSE last.col_idx
    IN  ReadColumn(excel, d.hb_sheets[c][m], column)

Sampled == last.outcome = "ok"

\* output[m, c, t] == (raw[m, c, t] + raw[m, c, t + offset]) / 2 for every
\* t < length at which raw[m, c, t + offset] exists
AveragedAt(length, offset) ==
    \A m \in 1..2 : \A c \in 1..ds[last.split].num_channels :
        LET raw == Raw(m, c)
            out == last.data[m][c]
        IN  \A t \in 0..(length - 1) :
                t + offset < Len(raw) =>
                    /\ t < Len(out)
                    /\ 2 * out[t + 1] = raw[t + 1] + raw[t + offset + 1]

\* output[m, c, t] == raw[m, c, t] for every t < length that raw has
VerbatimAt(length) ==
    \A m \in 1..2 : \A c \in 1..ds[last.split].num_channels :
        LET raw == Raw(m, c)
            out == last.data[m][c]
        IN  \A t \in 0..(length - 1) :
                t < Len(raw) => t < Len(out) /\ out[t + 1] = raw[t + 1]

---------------------------------------------------------------------------
(* C1: regime selection follows the header's event codes: a workbook whose *)
(* header event codes are exactly {S,F,H} gives target_length 4549 and     *)
(* label map {S:0,F:1,H:2}; one whose codes are exactly {F,H} gives        *)
(* target_length 4801 and label map {F:0,H:1}.                             *)
C1_RegimeFollowsHeader ==
    \A s \in Splits :
        Built(s) =>
            /\ ObservedEvents = {"S", "F", "H"} =>
                  /\ ds[s].target_length = 4549
                  /\ ds[s].event_map = ("S" :> 0 @@ "F" :> 1 @@ "H" :> 2)
            /\ ObservedEvents = {"F", "H"} =>
                  /\ ds[s].target_length = 4801
                  /\ ds[s].event_map = ("F" :> 0 @@ "H" :> 1)

(* C2: every access with 0 <= idx < len returns a buffer of shape exactly  *)
(* (2, num_channels, target_length), whatever the event code and whatever  *)
(* the number of data rows of the sheets.                                  *)
C2_ShapeExact ==
    (last.outcome # "none" /\ 0 <= last.idx
        /\ last.idx < Len(ds[last.split].samples_meta)) =>
        /\ Sampled
        /\ Len(last.data) = 2
        /\ \A m \in 1..2 :
              /\ Len(last.data[m]) = ds[last.split].num_channels
              /\ \A c \in 1..Len(last.data[m]) :
                    Len(last.data[m][c]) = ds[last.split].target_length

(* C7: in the tertiary regime, for every kind m, channel c and t < 4549:   *)
(* an F sample is (raw[t] + raw[t+252]) / 2, an H sample is                *)
(* (raw[t] + raw[t+2252]) / 2, an S sample is raw[t], raw being the scaled *)
(* series of the sample's column (at every t where that series has the     *)
(* points the equation names).                                             *)
C7_TertiaryWindowing ==
    (Sampled /\ "S" \in DOMAIN ds[last.split].event_map) =>
        /\ last.event = "F" => AveragedAt(4549, 252)
        /\ last.event = "H" => AveragedAt(4549, 2252)
        /\ last.event = "S" => VerbatimAt(4549)

\* an F sample and an H sample of full length whose two windows differ
C7_Witness ==
    /\ Sampled
    /\ ObservedEvents = {"S", "F", "H"}
    /\ last.event = "H"
    /\ Len(last.data[1][1]) = 4549
    /\ \E t \in 1..4549 : Raw(1, 1)[t] # Raw(1, 1)[t + 2252]
    /\ \E t \in 1..4549 : last.data[1][1][t] # Raw(1, 1)[t]

(* C8: for a workbook whose header event codes are only {F,H}, for every   *)
(* kind m, channel c and t < 4801: an H sample is                          *)
(* (raw[t] + raw[t+2000]) / 2 and an F sample is raw[t], the first 4801    *)
(* points verbatim.                                                        *)
C8_BinaryWindowing ==
    (Sampled /\ ObservedEvents = {"F", "H"}) =>
        /\ last.event = "H" => AveragedAt(4801, 2000)
        /\ last.event = "F" => VerbatimAt(4801)

(* C3: construction fails whenever the header's event codes are neither   *)
(* exactly {S,F,H} nor exactly {F,H}; no dataset is produced for such a    *)
(* workbook.                                                               *)
C3_UnsupportedEventsRefused ==
    \A s \in Splits :
        (status[s] # "none" /\ ObservedEvents \notin {{"S", "F", "H"}, {"F", "H"}})
            => ~Built(s)

(* C3, as amended: the header's event codes play no part in whether        *)
(* construction succeeds: it succeeds exactly when some channel has both   *)
(* sheets and the split name is train, test, all or validation, whatever   *)
(* the event codes of the header.                                          *)
C3_EventsNeverRefused ==
    \A s \in Splits :
        status[s] # "none" =>
            Built(s) <=> (PairedIds # {} /\ s \in ValidSplits)

\* a dataset built from a header with a code outside S/F/H
C3_Witness ==
    \E s \in Splits : Built(s) /\ "X" \in ObservedEvents /\ "S" \notin ObservedEvents

(* C4: dataset[idx] raises IndexError for every idx outside                *)
(* 0 <= idx < len, negative ones included, and returns a sample only for   *)
(* indices inside that range.                                              *)
C4_IndexErrorOutsideRange ==
    last.outcome # "none" =>
        LET n == Len(ds[last.split].samples_meta)
        IN  /\ (last.idx < 0 \/ last.idx >= n) => last.outcome = "IndexError"
            /\ Sampled => (0 <= last.idx /\ last.idx < n)

(* C4, as amended: dataset[idx] raises IndexError exactly when idx >= len  *)
(* or idx < -len; an idx with -len <= idx < 0 reads the entry at           *)
(* idx + len, as an idx with 0 <= idx < len reads the entry at idx.        *)
C4_IndexErrorPythonRange ==
    last.outcome # "none" =>
        LET meta == ds[last.split].samples_meta
            n == Len(meta)
            read == <<last.event, last.subj, last.col_idx>>
        IN  /\ last.outcome = "IndexError" <=> (last.idx >= n \/ last.idx < 0 - n)
            /\ (0 <= last.idx /\ last.idx < n) => read = meta[last.idx + 1]
            /\ (0 - n <= last.idx /\ last.idx < 0) => read = meta[last.idx + n + 1]

\* a sample returned for a negative index
C4_Witness == Sampled /\ last.idx < 0 /\ Len(last.data[1][1]) > 0

(* C5: for one workbook the subjects retained with split train and with    *)
(* split test are disjoint and their union is the subjects retained with   *)
(* split all, for every number of distinct subjects (train is the first 16 *)
(* of the sorted distinct subject ids, test the rest).                     *)
C5_SplitPartition ==
    (Built("train") /\ Built("test") /\ Built("all")) =>
        /\ Retained("train") \cap Retained("test") = {}
        /\ Retained("train") \cup Retained("test") = Retained("all")
        /\ Retained("all") = HeaderSubjects
        /\ Retained("train") = SplitSubjects("train")
        /\ Retained("test") = SplitSubjects("test")

\* more than 16 subjects: neither split is empty
C5_Witness ==
    /\ Built("train") /\ Built("test") /\ Built("all")
    /\ Cardinality(Retained("train")) = 16
    /\ Retained("test") # {}

(* C6: len(dataset) is the number of header entries (data columns, a       *)
(* leading non-event column dropped) whose subject is in the selected      *)
(* split; the retained entries keep the column order and each carries its  *)
(* position in the array of header entries as column index.                *)
C6_LengthAndColumns ==
    \A s \in Splits :
        Built(s) =>
            LET meta == ds[s].samples_meta
                columns == DataColumns
                selected == SplitSubjects(s)
            IN  /\ Len(meta) = Cardinality({i \in 1..Len(columns) :
                                               columns[i][2] \in selected})
                /\ \A i \in 1..Len(meta) :
                      /\ meta[i][3] \in 0..(Len(columns) - 1)
                      /\ columns[meta[i][3] + 1] = <<meta[i][1], meta[i][2]>>
                      /\ meta[i][2] \in selected
                /\ \A i \in 1..(Len(meta) - 1) : meta[i][3] < meta[i + 1][3]

\* a test split that retains the last columns of a header with a timestamp column
C6_Witness ==
    /\ Built("test")
    /\ excel.header1[1] = "Time"
    /\ Len(ds["test"].samples_meta) > 0
    /\ ds["test"].samples_meta[1][3] > 0

(* C9: the channel list is exactly the set of channel ids found in sheet   *)
(* names for which both an HbO sheet and an HbR sheet exist; other sheets  *)
(* and ids with one kind contribute nothing; construction fails for want   *)
(* of channels, producing no dataset, exactly when that set is empty.      *)
C9_ChannelPairing ==
    LET paired == PairedIds
    IN  \A s \in Splits :
            status[s] # "none" =>
                /\ status[s] = "ValueError: no valid channels" <=> paired = {}
                /\ paired = {} => ds[s] = NoDataset
                /\ Built(s) =>
                      /\ Range(ds[s].channels) = paired
                      /\ Len(ds[s].channels) = Cardinality(paired)
                      /\ ds[s].num_channels = Cardinality(paired)

\* a dataset of one channel from a workbook with sheets that pair with nothing
C9_Witness ==
    \E s \in Splits :
        /\ Built(s)
        /\ ds[s].num_channels = 1
        /\ Len(excel.sheetnames) = 4
        /\ \E n \in Range(excel.sheetnames) : MeasurementOf(n) = NoMeasurement
        /\ \E n \in Range(excel.sheetnames) :
              /\ MeasurementOf(n) # NoMeasurement
              /\ ChannelIdOf(n) \notin PairedIds \cup {NoMatch}

(* C10: the channels are stacked in ascending order of the pair of         *)
(* integers of their id (2,1 before 10,1), and the sheet pairs read at     *)
(* materialization follow that order.                                      *)
C10_NumericChannelOrder ==
    \A s \in Splits :
        Built(s) =>
            \A i \in 1..(Len(ds[s].channels) - 1) :
                PairLeq(IdPair(ds[s].channels[i]), IdPair(ds[s].channels[i + 1]))

(* C10, as amended: the channels are stacked in ascending order of their   *)
(* id as a string, compared character by character (10,1 before 2,1); the  *)
(* sheet pairs read at materialization follow that order, and so does the  *)
(* channel axis of every sample.                                           *)
C10_StringChannelOrder ==
    /\ \A s \in Splits :
          Built(s) =>
              /\ \A i \in 1..(Len(ds[s].channels) - 1) :
                    StrLess(ds[s].channels[i], ds[s].channels[i + 1])
              /\ Len(ds[s].hb_sheets) = Len(ds[s].channels)
              /\ \A i \in 1..Len(ds[s].channels) :
                    ds[s].hb_sheets[i] = <<SheetFor(ds[s].channels[i], "HbO"),
                                           SheetFor(ds[s].channels[i], "HbR")>>
    /\ (Sampled /\ last.event = "S") =>
          \A m \in 1..2 : \A c \in 1..Len(ds[last.split].channels) :
              LET kind == IF m = 1 THEN "HbO" ELSE "HbR"
                  column == IF excel.header1[1] = "Time" THEN last.col_idx + 1
                            ELSE last.col_idx
                  series == ReadColumn(excel,
                                SheetFor(ds[last.split].channels[c], kind), column)
              IN  last.data[m][c] = SubSeq(series, 1, Min(4549, Len(series)))

\* a sample of the channels 10,1 and 2,1, in that order
C10_Witness ==
    /\ Sampled
    /\ last.event = "S"
    /\ ds[last.split].channels = <<<<"1", "0", ",", "1">>, <<"2", ",", "1">>>>
    /\ last.data[1][1] # last.data[1][2]

====
